---- MODULE Spec2Model ----
(***************************************************************************)
(* Remediation orchestrator of the Self-Healing Infrastructure Monitor     *)
(* (src/src/mcp_server/tools/remediation.py, class RemediationTool) and    *)
(* its rollback tool and snapshot store (tools/rollback.py, class          *)
(* RollbackTool).                                                          *)
(*                                                                         *)
(* The tool runs on one asyncio event loop: a coroutine runs without       *)
(* interruption until it reaches an await that really suspends (the        *)
(* asyncio.sleep inside an action handler).  Every action below is one     *)
(* such uninterrupted stretch of code; the coroutines suspended inside a   *)
(* handler are the elements of inflight.                                   *)
(*                                                                         *)
(* Strings that the code takes apart are sequences of tokens: a tool name  *)
(* is <<"remediate_", "restart_service">>.  A remediation id               *)
(* "REM-%Y%m%d%H%M%S" is the clock second it was formatted from.           *)
(***************************************************************************)
EXTENDS Integers, Sequences, FiniteSets

\* ---------------------------------------------------------------- bounds
MaxSubmits == 2      \* external calls of execute
MaxClock == 1        \* datetime.utcnow() returns the seconds 0..MaxClock
MaxRegister == 1     \* calls of register_action that append a name
MaxSnapClock == 3    \* the snapshot store runs over the seconds 0..MaxSnapClock
MaxReads == 2        \* read calls noted between two writes

\* ---------------------------------------------------------------- values
None == "None"
Prefix == "remediate_"

RESTART_SERVICE == <<Prefix, "restart_service">>
SCALE_UP == <<Prefix, "scale_up">>
SCALE_DOWN == <<Prefix, "scale_down">>
CLEAR_CACHE == <<Prefix, "clear_cache">>
UPDATE_CONFIG == <<Prefix, "update_config">>
RESTART_POD == <<Prefix, "restart_pod">>
KILL_PROCESS == <<Prefix, "kill_process">>

\* The tool names execute dispatches on.
Tools ==
  {RESTART_SERVICE, SCALE_UP, SCALE_DOWN, CLEAR_CACHE, UPDATE_CONFIG,
   RESTART_POD, KILL_PROCESS}

\* "required" of each tool's inputSchema.
RequiredArgs(tool) ==
  CASE tool = RESTART_SERVICE -> {"resource_uri", "reason"}
    [] tool = SCALE_UP -> {"resource_uri", "target_capacity", "reason"}
    [] tool = SCALE_DOWN -> {"resource_uri", "target_capacity", "reason"}
    [] tool = CLEAR_CACHE -> {"cache_uri", "reason"}
    [] tool = UPDATE_CONFIG -> {"resource_uri", "config_changes", "reason"}
    [] tool = RESTART_POD -> {"pod_name", "reason"}
    [] tool = KILL_PROCESS -> {"resource_uri", "process_id", "reason"}
    [] OTHER -> {}

Range(s) == {s[i] : i \in 1..Len(s)}

\* ---------------------------------------------------------------- inputs
\* A tool name that no branch of execute handles.
REBOOT_HOST == <<Prefix, "reboot_host">>

\* The calls of execute the model makes, as <<tool_name, arguments>>; the
\* arguments of a call are the keys of its dict, either all the required
\* ones or "reason" alone.
Inputs ==
  {<<RESTART_POD, {"reason"}>>,
   <<UPDATE_CONFIG, RequiredArgs(UPDATE_CONFIG)>>,
   <<REBOOT_HOST, {"reason"}>>}

Ids == 0..(MaxClock + 1)
Approvers == {"opA"}
Reasons == {"too risky"}
\* action.get("name"): a name, or << >> for a missing or empty one.
ActionNames == {<<"custom_action">>, << >>}

\* config.max_retries as configured: no retry, or the default of
\* RemediationConfig.
RetryConfigs == {0, 3}

\* The seconds of a day, scaled down: timedelta(days = d) is d * DaySeconds
\* seconds of the clock.
DaySeconds == 2

\* The resource_uri values of the snapshot calls.
Resources == {"r1", "r2"}

\* history_retention_days as configured for the snapshot store.
SnapshotRetentionDays == {1}

\* RollbackConfig.history_retention_days as it defaults.
DefaultRetentionDays == 7

\* The limit arguments of the get_history calls.
Limits == {0, 1, 2}

\* config.allowed_actions as configured.
AllowedConfigs == {<< >>, <<<<"restart_service">>, <<"restart_pod">>>>}

VARIABLES
  config,               \* the RemediationConfig handed to __init__
  require_approval,     \* self.require_approval
  max_retries,          \* self.max_retries
  allowed_actions,      \* self.allowed_actions (the list config holds too)
  remediation_history,  \* self.remediation_history
  inflight,             \* coroutines suspended in a handler's asyncio.sleep
  now,                  \* the second datetime.utcnow() returned last
  requests,             \* observer: the external execute calls and what they returned
  registered,           \* observer: names appended by register_action
  rollback_on_failure,  \* self.rollback_on_failure of the RemediationTool
  enabled,              \* RollbackTool: self.enabled
  auto_rollback,        \* RollbackTool: self.auto_rollback
  history_retention_days, \* RollbackTool: self.history_retention_days
  rollback_history,     \* RollbackTool: self.rollback_history
  state_snapshots,      \* RollbackTool: self.state_snapshots, snapshot_id -> snapshot
  rollbacks,            \* coroutines suspended in the sleep of _rollback_remediation
  rollback_calls,       \* observer: the calls of rollback_remediation so far
  captured,             \* observer: the snapshot_id and resource_uri each capture returned
  reads,                \* observer: the read calls since the last write, and what each returned
  rollback_returns      \* observer: what the calls counted by rollback_calls returned, in order

\* The fields of the RollbackTool, which holds no reference to the
\* RemediationTool: neither object reads or writes the other's fields.
rollback_vars ==
  <<enabled, auto_rollback, history_retention_days, rollback_history,
    state_snapshots, rollbacks, rollback_calls, captured, rollback_returns>>

vars ==
  <<config, require_approval, max_retries, allowed_actions,
    remediation_history, inflight, now, requests, registered,
    rollback_on_failure, rollback_vars, reads>>

\* ------------------------------------------------------------- __init__
Init ==
  /\ config \in [require_approval : BOOLEAN, max_retries : RetryConfigs]
  /\ require_approval = config.require_approval
  /\ max_retries = config.max_retries
  /\ allowed_actions \in AllowedConfigs
  /\ remediation_history = << >>
  /\ inflight = {}
  /\ now = 0
  /\ requests = << >>
  /\ registered = 0
  /\ rollback_on_failure = TRUE
  /\ enabled = TRUE
  /\ auto_rollback = TRUE
  /\ history_retention_days = DefaultRetentionDays
  /\ rollback_history = << >>
  /\ state_snapshots = {}
  /\ rollbacks = {}
  /\ rollback_calls = 0
  /\ captured = {}
  /\ reads = << >>
  /\ rollback_returns = << >>

\* -------------------------------------------------------------- execute
\* Fault: the prefix is not stripped before the allow-list is consulted.
ActionTypeUnstripped(tool) == tool

\* tool_name.replace("remediate_", ""): every occurrence is removed.
ActionType(tool) == SelectSeq(tool, LAMBDA tok : tok # Prefix)

\* The allow-list check of execute.
PolicyRejects(tool) ==
  /\ allowed_actions # << >>
  /\ ActionType(tool) \notin Range(allowed_actions)

\* The remediation_record dict execute builds at second t; req is the
\* observer's number of the external call the record is made for.
NewRecord(tool, args, ra, req, t) ==
  [remediation_id |-> t, tool |-> tool, arguments |-> args,
   status |-> "pending", require_approval |-> ra, result |-> None,
   error |-> FALSE, approved_by |-> None, rejected_by |-> None,
   rejection_reason |-> None, req |-> req]

\* if self.require_approval: ...
ApprovalGate(ra) == ra

\* The if/elif chain: a handler is awaited for the seven known names.
HasHandler(tool) == tool \in Tools

\* execute from its entry to its first suspension or its return, on the
\* history hist with self.require_approval = ra, at second t.
\*   "rejected"           the allow-list refuses; nothing is stored
\*   "awaiting_approval"  the record is appended and the call returns
\*   "suspended"          a handler was called and sleeps; rec is the local record
\*   "error"              no handler of that name; the record is appended
ExecuteSync(hist, ra, tool, args, req, t) ==
  LET rec == NewRecord(tool, args, ra, req, t) IN
  IF PolicyRejects(tool)
    THEN [outcome |-> "rejected", hist |-> hist, rec |-> rec]
  ELSE IF ApprovalGate(ra)
    THEN [outcome |-> "awaiting_approval",
          hist |-> Append(hist, [rec EXCEPT !.status = "awaiting_approval"]),
          rec |-> rec]
  ELSE IF HasHandler(tool)
    THEN [outcome |-> "suspended", hist |-> hist, rec |-> rec]
  ELSE [outcome |-> "error",
        hist |-> Append(hist, [rec EXCEPT !.status = "error", !.result = "error"]),
        rec |-> rec]

\* What the observer notes of an external execute call: its inputs, the
\* status of the dict it returned ("in_flight" until it returns) and the
\* handler invocations made for it.
Request(tool, args, outcome, attempts) ==
  [tool |-> tool, arguments |-> args, outcome |-> outcome, attempts |-> attempts]

\* The dict a call returns, by its "status" and what its message says.
Returned(status, message) == [status |-> status, message |-> message]

\* A coroutine suspended inside a handler: the external call it serves
\* (kind "execute", or "approve" with the index of the approved record and
\* the saved original_require_approval), execute's local record, and where
\* the handler sleeps.
Task(kind, rec, target, orig) ==
  [kind |-> kind, rec |-> rec, target |-> target, orig |-> orig, pc |-> "sleep"]

\* The observer's note of the reads: a step that writes the remediation
\* history, the rollback history or the snapshot store starts it afresh.
ReadsKept ==
  reads' = IF /\ remediation_history' = remediation_history
              /\ rollback_history' = rollback_history
              /\ state_snapshots' = state_snapshots
             THEN reads
             ELSE << >>

\* The seconds datetime.utcnow() can return next: the clock does not go back.
Clock == now..MaxClock

\* The fields a call of approve_remediation or reject_remediation can
\* write, with the observer's notes, as they are now.
Current ==
  [remediation_history |-> remediation_history,
   require_approval |-> require_approval,
   inflight |-> inflight, now |-> now, requests |-> requests]

\* The step that leaves those fields as s has them; a call writes nothing
\* else.
Becomes(s) ==
  /\ remediation_history' = s.remediation_history
  /\ require_approval' = s.require_approval
  /\ inflight' = s.inflight
  /\ now' = s.now
  /\ requests' = s.requests
  /\ UNCHANGED <<config, max_retries, allowed_actions, registered>>
  /\ UNCHANGED <<rollback_on_failure, rollback_vars>>
  /\ ReadsKept

\* An external call RemediationTool.execute(tool_name, arguments) at second
\* t, up to its return or to the handler's sleep.
Submit(tool, args, t) ==
  LET req == Len(requests) + 1
      ex == ExecuteSync(remediation_history, require_approval, tool, args, req, t)
  IN /\ Len(requests) < MaxSubmits
     /\ now' = t
     /\ remediation_history' = ex.hist
     /\ IF ex.outcome = "suspended"
          THEN /\ inflight' = inflight \cup {Task("execute", ex.rec, 0, FALSE)}
               /\ requests' = Append(requests, Request(tool, args, "in_flight", 1))
          ELSE /\ inflight' = inflight
               /\ requests' = Append(requests, Request(tool, args, ex.outcome, 0))
     /\ UNCHANGED <<config, require_approval, max_retries, allowed_actions,
                    registered>>
     /\ UNCHANGED <<rollback_on_failure, rollback_vars>>
     /\ ReadsKept

\* ------------------------------------------------------------- handlers
\* args.get("restart_required", True) in _update_config: no call of the model
\* passes the key, so the default applies.
RestartRequired(args) == "restart_required" \notin args

\* The handlers only simulate their action and return "completed"; the
\* one statement that can raise is pod_name.rsplit in _restart_pod, when
\* args.get("pod_name") is None.
HandlerRaises(tool, args) == tool = RESTART_POD /\ "pod_name" \notin args

\* _update_config awaits _restart_service after its own sleep.
HandlerSleepsAgain(t) ==
  /\ t.pc = "sleep"
  /\ t.rec.tool = UPDATE_CONFIG
  /\ RestartRequired(t.rec.arguments)

\* The status execute stores and returns once the handler is done:
\* result.get("status", "completed"), or "failed" from the except branch.
FinalStatus(tool, args) == IF HandlerRaises(tool, args) THEN "failed" ELSE "completed"

\* The record execute appends once the handler is done.
FinishedRecord(rec) ==
  LET st == FinalStatus(rec.tool, rec.arguments) IN
  IF st = "failed"
    THEN [rec EXCEPT !.status = "failed", !.error = TRUE]
    ELSE [rec EXCEPT !.status = st, !.result = st]

\* The sleep of _update_config ends and it awaits _restart_service.
HandlerContinue(t) ==
  /\ t \in inflight
  /\ HandlerSleepsAgain(t)
  /\ inflight' = (inflight \ {t}) \cup {[t EXCEPT !.pc = "restart_sleep"]}
  /\ UNCHANGED <<config, require_approval, max_retries, allowed_actions,
                 remediation_history, now, requests, registered>>
  /\ UNCHANGED <<rollback_on_failure, rollback_vars>>
  /\ ReadsKept

\* Fault: the approved record is put back to awaiting_approval.
ApproveEpilogueReopens(hist, target, result) ==
  [hist EXCEPT ![target].status = "awaiting_approval", ![target].result = result]

\* Fault: the approved record is taken out of the history once executed.
ApproveEpilogueDrops(hist, target, result) ==
  SubSeq(hist, 1, target - 1) \o SubSeq(hist, target + 1, Len(hist))

\* approve_remediation after execute has returned result: the approved
\* record is marked completed whatever the result, and the finally clause
\* restores the saved flag.
ApproveEpilogue(hist, target, result) ==
  [hist EXCEPT ![target].status = "completed", ![target].result = result]

\* The handler's last sleep ends: execute stores the record and returns; an
\* approve that awaited it runs to its end.
HandlerReturn(t) ==
  LET st == FinalStatus(t.rec.tool, t.rec.arguments)
      h1 == Append(remediation_history, FinishedRecord(t.rec))
  IN /\ t \in inflight
     /\ ~HandlerSleepsAgain(t)
     /\ inflight' = inflight \ {t}
     /\ IF t.kind = "approve"
          THEN /\ remediation_history' = ApproveEpilogue(h1, t.target, st)
               /\ require_approval' = t.orig
               /\ requests' = requests
          ELSE /\ remediation_history' = h1
               /\ require_approval' = require_approval
               /\ requests' = [requests EXCEPT ![t.rec.req].outcome = st]
     /\ UNCHANGED <<config, max_retries, allowed_actions, now, registered>>
     /\ UNCHANGED <<rollback_on_failure, rollback_vars>>
     /\ ReadsKept

\* ------------------------------------------------- approve and reject
\* The lookup loop of approve_remediation and reject_remediation: the index
\* of the first record with that remediation_id, 0 when there is none.
FindRecord(hist, id) ==
  LET hits == {i \in 1..Len(hist) : hist[i].remediation_id = id} IN
  IF hits = {} THEN 0 ELSE CHOOSE i \in hits : \A j \in hits : i <= j

\* Fault: approve_remediation refuses rejected records only.
ApproveAllowedUnlessRejected(rec) == rec.status # "rejected"

\* Fault: reject_remediation also accepts a record that is being executed.
RejectAllowedWhileApproved(rec) == rec.status \in {"awaiting_approval", "approved"}

\* Fault: reject_remediation refuses rejected records only.
RejectAllowedUnlessRejected(rec) == rec.status # "rejected"

\* remediation.get("status") != "awaiting_approval" is refused, by
\* approve_remediation and by reject_remediation.
ApproveAllowed(rec) == rec.status = "awaiting_approval"

RejectAllowed(rec) == rec.status = "awaiting_approval"

\* Fault: approve_remediation stores the approver and leaves the status.
MarkApprovedKeepsStatus(rec, approved_by) == [rec EXCEPT !.approved_by = approved_by]

\* Fault: reject_remediation drops the reason.
MarkRejectedNoReason(rec, rejected_by, reason) ==
  [rec EXCEPT !.status = "rejected", !.rejected_by = rejected_by]

\* approve_remediation marks the record before it calls execute.
MarkApproved(rec, approved_by) ==
  [rec EXCEPT !.status = "approved", !.approved_by = approved_by]

\* reject_remediation's update of the record.
MarkRejected(rec, rejected_by, reason) ==
  [rec EXCEPT !.status = "rejected", !.rejected_by = rejected_by,
              !.rejection_reason = reason]

\* Fault: an approve is refused while any handler is running.
ApproveCheckSerialized(hist, id) ==
  IF inflight # {} THEN "busy"
  ELSE IF FindRecord(hist, id) = 0 THEN "not_found"
  ELSE IF ~ApproveAllowed(hist[FindRecord(hist, id)]) THEN "not_awaiting"
  ELSE "ok"

\* The two early returns of approve_remediation: "not_found" when the
\* lookup finds no record, "not_awaiting" when the status check refuses it,
\* "ok" when the call goes on.
ApproveCheck(hist, id) ==
  IF FindRecord(hist, id) = 0 THEN "not_found"
  ELSE IF ~ApproveAllowed(hist[FindRecord(hist, id)]) THEN "not_awaiting"
  ELSE "ok"

\* The same two early returns of reject_remediation.
RejectCheck(hist, id) ==
  IF FindRecord(hist, id) = 0 THEN "not_found"
  ELSE IF ~RejectAllowed(hist[FindRecord(hist, id)]) THEN "not_awaiting"
  ELSE "ok"

\* What approve_remediation(id, ...) returns when called now: the error
\* dict of an early return, else the result of the execute it awaits.
ApproveReturn(id) ==
  LET check == ApproveCheck(remediation_history, id) IN
  IF check # "ok" THEN Returned("error", check)
  ELSE LET old == remediation_history[FindRecord(remediation_history, id)]
           ex == ExecuteSync(remediation_history, FALSE, old.tool,
                             old.arguments, old.req, now)
       IN IF ex.outcome = "suspended"
            THEN Returned(FinalStatus(old.tool, old.arguments), None)
            ELSE Returned(ex.outcome, None)

\* What reject_remediation(id, rejected_by, reason) returns when called now.
RejectReturn(id, reason) ==
  LET check == RejectCheck(remediation_history, id) IN
  IF check # "ok" THEN Returned("error", check) ELSE Returned("rejected", reason)

\* approve_remediation(remediation_id, approved_by) at second t, up to its
\* return or to the sleep of the handler that the execute it awaits has
\* called: the fields it leaves.  An early return writes nothing.
\* Otherwise execute runs with self.require_approval set to False; the flag
\* is restored when execute has returned.
ApproveEffect(id, approved_by, t) ==
  IF ApproveCheck(remediation_history, id) # "ok" THEN Current
  ELSE
    LET target == FindRecord(remediation_history, id)
        old == remediation_history[target]
        h1 == [remediation_history EXCEPT
                 ![target] = MarkApproved(old, approved_by)]
        ex == ExecuteSync(h1, FALSE, old.tool, old.arguments, old.req, t)
    IN IF ex.outcome = "suspended"
         THEN [remediation_history |-> h1,
               require_approval |-> FALSE,
               inflight |-> inflight \cup
                 {Task("approve", ex.rec, target, require_approval)},
               now |-> t,
               requests |-> [requests EXCEPT ![old.req].attempts = @ + 1]]
         ELSE [remediation_history |-> ApproveEpilogue(ex.hist, target, ex.outcome),
               require_approval |-> require_approval,
               inflight |-> inflight,
               now |-> t,
               requests |-> requests]

ApproveRemediation(id, approved_by, t) == Becomes(ApproveEffect(id, approved_by, t))

\* reject_remediation(remediation_id, rejected_by, reason): the fields it
\* leaves; it never awaits.  (The rejected_at it stamps is not kept in the
\* model.)
RejectEffect(id, rejected_by, reason) ==
  IF RejectCheck(remediation_history, id) # "ok" THEN Current
  ELSE
    LET target == FindRecord(remediation_history, id) IN
    [Current EXCEPT
       !.remediation_history =
         [remediation_history EXCEPT
            ![target] = MarkRejected(@, rejected_by, reason)]]

RejectRemediation(id, rejected_by, reason) ==
  Becomes(RejectEffect(id, rejected_by, reason))

\* ------------------------------------------------------ register_action
\* register_action(action): a truthy name is appended to the allow-list.
RegisterAction(action_name) ==
  /\ registered < MaxRegister
  /\ IF action_name # << >>
       THEN /\ allowed_actions' = Append(allowed_actions, action_name)
            /\ registered' = registered + 1
       ELSE UNCHANGED <<allowed_actions, registered>>
  /\ UNCHANGED <<config, require_approval, max_retries, remediation_history,
                 inflight, now, requests>>
  /\ UNCHANGED <<rollback_on_failure, rollback_vars>>
  /\ ReadsKept

\* ---------------------------------------------------------- RollbackTool
\* A coroutine suspended in the asyncio.sleep of _rollback_remediation, with
\* the arguments of its call; call is the observer's number of the call.
RollbackTask(call, remediation_id, reason, force) ==
  [call |-> call, remediation_id |-> remediation_id, reason |-> reason,
   force |-> force]

\* The rollback_record dict _rollback_remediation builds at second t, once
\* its sleep is over; call and force are the observer's notes of the call
\* it was built for (the code reads force and never uses it).
RollbackRecord(task, t) ==
  [rollback_id |-> t, remediation_id |-> task.remediation_id,
   reason |-> task.reason, status |-> "completed",
   call |-> task.call, force |-> task.force]

\* The observer's note of a returned call: its number and the "status" of
\* the dict it returned.
RollbackReturned(call, status) == [call |-> call, status |-> status]

\* RollbackTool.execute("rollback_remediation", {remediation_id, reason,
\* force}) up to the sleep of _rollback_remediation, or to the error it
\* returns when the tool is disabled.  The remediation is not looked up.
RollbackRemediation(remediation_id, reason, force) ==
  /\ rollback_calls' = rollback_calls + 1
  /\ rollbacks' =
       IF enabled
         THEN rollbacks \cup
                {RollbackTask(rollback_calls + 1, remediation_id, reason, force)}
         ELSE rollbacks
  /\ rollback_returns' =
       IF enabled
         THEN rollback_returns
         ELSE Append(rollback_returns, RollbackReturned(rollback_calls + 1, "error"))
  /\ UNCHANGED <<config, require_approval, max_retries, allowed_actions,
                 remediation_history, inflight, now, requests, registered,
                 rollback_on_failure, enabled, auto_rollback,
                 history_retention_days, rollback_history, state_snapshots,
                 captured>>
  /\ ReadsKept

\* Fault: once the record is appended the rollback is attempted again.
RollbackReturnRetries(task, t) ==
  /\ task \in rollbacks
  /\ rollbacks' = rollbacks
  /\ now' = t
  /\ rollback_history' = Append(rollback_history, RollbackRecord(task, t))
  /\ rollback_returns' = rollback_returns
  /\ UNCHANGED <<config, require_approval, max_retries, allowed_actions,
                 remediation_history, inflight, requests, registered,
                 rollback_on_failure, enabled, auto_rollback,
                 history_retention_days, state_snapshots, rollback_calls,
                 captured>>
  /\ ReadsKept

\* The sleep of _rollback_remediation ends at second t: the rollback
\* record is appended and the call returns "completed".
RollbackReturn(task, t) ==
  /\ task \in rollbacks
  /\ rollbacks' = rollbacks \ {task}
  /\ now' = t
  /\ rollback_history' = Append(rollback_history, RollbackRecord(task, t))
  /\ rollback_returns' =
       Append(rollback_returns, RollbackReturned(task.call, "completed"))
  /\ UNCHANGED <<config, require_approval, max_retries, allowed_actions,
                 remediation_history, inflight, requests, registered,
                 rollback_on_failure, enabled, auto_rollback,
                 history_retention_days, state_snapshots, rollback_calls,
                 captured>>
  /\ ReadsKept

\* Fault: the policy flag is not consulted.
AutoRollbackAlways == TRUE

\* The test of auto_rollback_on_failure: "if not self.auto_rollback" skips.
AutoRollbackEnabled == auto_rollback

\* f"Auto-rollback due to failure: {failure_reason}".
AutoReason(failure_reason) == <<"Auto-rollback due to failure: ", failure_reason>>

\* The "status" of the dict auto_rollback_on_failure returns when called
\* now: "skipped", or what _rollback_remediation returns.
AutoRollbackReturn == IF AutoRollbackEnabled THEN "completed" ELSE "skipped"

\* auto_rollback_on_failure(remediation_id, failure_reason), up to its
\* return or to the sleep of the _rollback_remediation it awaits.  It calls
\* _rollback_remediation itself, not execute: self.enabled is not tested.
AutoRollbackOnFailure(remediation_id, failure_reason) ==
  /\ rollback_calls < MaxSubmits
  /\ rollback_calls' = rollback_calls + 1
  /\ rollbacks' =
       IF AutoRollbackEnabled
         THEN rollbacks \cup
                {RollbackTask(rollback_calls + 1, remediation_id,
                              AutoReason(failure_reason), FALSE)}
         ELSE rollbacks
  /\ rollback_returns' =
       IF AutoRollbackEnabled
         THEN rollback_returns
         ELSE Append(rollback_returns, RollbackReturned(rollback_calls + 1, "skipped"))
  /\ UNCHANGED <<config, require_approval, max_retries, allowed_actions,
                 remediation_history, inflight, now, requests, registered,
                 rollback_on_failure, enabled, auto_rollback,
                 history_retention_days, rollback_history, state_snapshots,
                 captured>>
  /\ ReadsKept

\* ------------------------------------------------------- snapshot store
\* timedelta(days=self.history_retention_days), in seconds.
RetentionPeriod == history_retention_days * DaySeconds

\* The snapshot dict _create_snapshot builds at second t:
\* snapshot_id "snap-%Y%m%d%H%M%S" is the clock second.
Snapshot(resource_uri, t) ==
  [snapshot_id |-> t, resource_uri |-> resource_uri, timestamp |-> t,
   retention_until |-> t + RetentionPeriod]

\* self.state_snapshots[snapshot_id] = snapshot: an entry under that id is
\* replaced.
StoreSnapshot(snaps, snapshot) ==
  {s \in snaps : s.snapshot_id # snapshot.snapshot_id} \cup {snapshot}

\* get_snapshot(snapshot_id): self.state_snapshots.get(snapshot_id), as
\* the set of what it returns: {} for None, else the one snapshot.
GetSnapshotIn(snaps, snapshot_id) == {s \in snaps : s.snapshot_id = snapshot_id}

GetSnapshot(snapshot_id) == GetSnapshotIn(state_snapshots, snapshot_id)

\* Fault: the cutoff of the sweep forgets the retention period.
CutoffNoRetention(t) == t

\* cutoff_date = datetime.utcnow() - timedelta(days=...), at second t.
Cutoff(t) == t - RetentionPeriod

\* What cleanup_old_snapshots at second t leaves of the store: the entries
\* with snapshot_time < cutoff_date are deleted.
Swept(snaps, t) == {s \in snaps : ~(s.timestamp < Cutoff(t))}

\* The seconds datetime.utcnow() can return next in the snapshot store.
SnapClock == now..MaxSnapClock

\* RollbackTool.execute("rollback_create_snapshot", {resource_uri}) at
\* second t; it never awaits.  A disabled tool returns an error.
CreateSnapshot(resource_uri, t) ==
  /\ now' = t
  /\ IF enabled
       THEN /\ state_snapshots' = StoreSnapshot(state_snapshots, Snapshot(resource_uri, t))
            /\ captured' = captured \cup
                 {[snapshot_id |-> t, resource_uri |-> resource_uri]}
       ELSE UNCHANGED <<state_snapshots, captured>>
  /\ UNCHANGED <<config, require_approval, max_retries, allowed_actions,
                 remediation_history, inflight, requests, registered,
                 rollback_on_failure, enabled, auto_rollback,
                 history_retention_days, rollback_history, rollbacks,
                 rollback_calls, rollback_returns>>
  /\ ReadsKept

\* cleanup_old_snapshots() at second t.
CleanupOldSnapshots(t) ==
  /\ now' = t
  /\ state_snapshots' = Swept(state_snapshots, t)
  /\ UNCHANGED <<config, require_approval, max_retries, allowed_actions,
                 remediation_history, inflight, requests, registered,
                 rollback_on_failure, enabled, auto_rollback,
                 history_retention_days, rollback_history, rollbacks,
                 rollback_calls, captured, rollback_returns>>
  /\ ReadsKept

\* ------------------------------------------- the other rollback tools
ROLLBACK_CONFIG == "rollback_config"
ROLLBACK_DEPLOYMENT == "rollback_deployment"
ROLLBACK_SCALE == "rollback_scale"

\* args.get("snapshot_id") of a call that passes no snapshot_id: None.
NoSnapshot == -1

\* The calls of rollback_config, rollback_deployment and rollback_scale
\* the model makes, as <<tool_name, resource_uri, snapshot_id>>.
RollbackInputs ==
  {<<ROLLBACK_CONFIG, "r1", NoSnapshot>>, <<ROLLBACK_DEPLOYMENT, "r1", NoSnapshot>>}
    \cup {<<ROLLBACK_SCALE, r, id>> : r \in Resources, id \in {NoSnapshot, 0, 1}}

\* A coroutine suspended in the sleep of _rollback_config,
\* _rollback_deployment or _rollback_scale.
OpTask(call, tool, resource_uri, snapshot_id) ==
  [call |-> call, tool |-> tool, resource_uri |-> resource_uri,
   snapshot_id |-> snapshot_id]

IsOpTask(task) == "tool" \in DOMAIN task

\* The lookup of _rollback_scale, as the set of what it finds:
\* self.state_snapshots.get(snapshot_id) if snapshot_id else None.
ScaleSnapshot(snaps, snapshot_id) ==
  IF snapshot_id = NoSnapshot THEN {} ELSE GetSnapshotIn(snaps, snapshot_id)

\* The "status" of the dict the three handlers return; none has another
\* return statement.
OpStatus(task) == "completed"

\* The observer's note of the dict a handler returned, with the snapshot
\* _rollback_scale restored from ({} when it fell back to its default
\* state).
OpReturned(task, snaps) ==
  [call |-> task.call, status |-> OpStatus(task), tool |-> task.tool,
   resource_uri |-> task.resource_uri, snapshot_id |-> task.snapshot_id,
   snapshot |-> IF task.tool = ROLLBACK_SCALE
                  THEN ScaleSnapshot(snaps, task.snapshot_id)
                  ELSE {}]

\* self.rollback_history after one of the three handlers has returned:
\* none of them writes it.
OpHistory(hist, task, t) == hist

\* RollbackTool.execute(tool_name, {resource_uri, snapshot_id, reason})
\* for one of the three tools, up to the handler's sleep or to the error a
\* disabled tool returns.
RollbackOp(tool, resource_uri, snapshot_id) ==
  /\ rollback_calls' = rollback_calls + 1
  /\ IF enabled
       THEN /\ rollbacks' = rollbacks \cup
                 {OpTask(rollback_calls + 1, tool, resource_uri, snapshot_id)}
            /\ rollback_returns' = rollback_returns
       ELSE /\ rollbacks' = rollbacks
            /\ rollback_returns' =
                 Append(rollback_returns, RollbackReturned(rollback_calls + 1, "error"))
  /\ UNCHANGED <<config, require_approval, max_retries, allowed_actions,
                 remediation_history, inflight, now, requests, registered,
                 rollback_on_failure, enabled, auto_rollback,
                 history_retention_days, rollback_history, state_snapshots,
                 captured>>
  /\ ReadsKept

\* The handler's sleep ends at second t: _rollback_scale looks its
\* snapshot up, and the handler returns its dict.
RollbackOpReturn(task, t) ==
  /\ task \in rollbacks
  /\ IsOpTask(task)
  /\ rollbacks' = rollbacks \ {task}
  /\ now' = t
  /\ rollback_history' = OpHistory(rollback_history, task, t)
  /\ rollback_returns' = Append(rollback_returns, OpReturned(task, state_snapshots))
  /\ UNCHANGED <<config, require_approval, max_retries, allowed_actions,
                 remediation_history, inflight, requests, registered,
                 rollback_on_failure, enabled, auto_rollback,
                 history_retention_days, state_snapshots, rollback_calls,
                 captured>>
  /\ ReadsKept

\* RollbackTool.execute("rollback_remediation", None): args.get raises
\* AttributeError before the sleep, and the except clause of execute
\* returns status "failed".  A disabled tool returns its error first.
RollbackRemediationNoArguments ==
  /\ rollback_calls' = rollback_calls + 1
  /\ rollback_returns' =
       Append(rollback_returns,
              RollbackReturned(rollback_calls + 1,
                               IF enabled THEN "failed" ELSE "error"))
  /\ UNCHANGED <<config, require_approval, max_retries, allowed_actions,
                 remediation_history, inflight, now, requests, registered,
                 rollback_on_failure, enabled, auto_rollback,
                 history_retention_days, rollback_history, state_snapshots,
                 rollbacks, captured>>
  /\ ReadsKept

\* ------------------------------------------------------------- reads
\* get_history(limit): self.remediation_history[-limit:].  A slice from
\* -limit takes the last limit elements in list order, all of them when
\* the list is shorter; -0 is 0, so limit 0 slices from the start.
GetHistory(hist, limit) ==
  IF limit = 0 \/ limit >= Len(hist)
    THEN hist
    ELSE SubSeq(hist, Len(hist) - limit + 1, Len(hist))

\* Fault: the lookup takes the entry out of the dict (pop for get).
StoreAfterPop(snaps, snapshot_id) == {s \in snaps : s.snapshot_id # snapshot_id}

\* self.state_snapshots after get_snapshot(snapshot_id): dict.get leaves
\* the dict as it is.
StoreAfterGet(snaps, snapshot_id) == snaps

\* The observer's note of one read call.
Read(op, arg, result) == [op |-> op, arg |-> arg, result |-> result]

\* RemediationTool.get_history(limit).
GetHistoryCall(limit) ==
  /\ Len(reads) < MaxReads
  /\ reads' = Append(reads, Read("get_history", limit,
                                 GetHistory(remediation_history, limit)))
  /\ UNCHANGED <<config, require_approval, max_retries, allowed_actions,
                 remediation_history, inflight, now, requests, registered>>
  /\ UNCHANGED <<rollback_on_failure, rollback_vars>>

\* RollbackTool.get_snapshot(snapshot_id).
GetSnapshotCall(snapshot_id) ==
  /\ Len(reads) < MaxReads
  /\ reads' = Append(reads, Read("get_snapshot", snapshot_id,
                                 GetSnapshot(snapshot_id)))
  /\ state_snapshots' = StoreAfterGet(state_snapshots, snapshot_id)
  /\ UNCHANGED <<config, require_approval, max_retries, allowed_actions,
                 remediation_history, inflight, now, requests, registered>>
  /\ UNCHANGED <<rollback_on_failure, enabled, auto_rollback,
                 history_retention_days, rollback_history, rollbacks,
                 rollback_calls, captured, rollback_returns>>

Next ==
  \/ \E in \in Inputs : \E t \in Clock : Submit(in[1], in[2], t)
  \/ \E t \in inflight : HandlerContinue(t)
  \/ \E t \in inflight : HandlerReturn(t)
  \/ \E id \in Ids : \E by \in Approvers : \E t \in Clock :
       ApproveRemediation(id, by, t)
  \/ \E id \in Ids : \E by \in Approvers : \E reason \in Reasons :
       RejectRemediation(id, by, reason)
  \/ \E name \in ActionNames : RegisterAction(name)

Spec == Init /\ [][Next]_vars

\* The execute and rollback_remediation calls made so far, as the
\* server's call_tool dispatches them.
ServerCalls == Len(requests) + rollback_calls

\* The RemediationTool and the RollbackTool of one server, side by side.
NextRollback ==
  \/ \E in \in Inputs : \E t \in Clock :
       ServerCalls < MaxSubmits /\ Submit(in[1], in[2], t)
  \/ \E t \in inflight : HandlerContinue(t)
  \/ \E t \in inflight : HandlerReturn(t)
  \/ \E id \in Ids : \E by \in Approvers : \E t \in Clock :
       ApproveRemediation(id, by, t)
  \/ \E id \in Ids : \E by \in Approvers : \E reason \in Reasons :
       RejectRemediation(id, by, reason)
  \/ \E id \in Ids : \E reason \in Reasons : \E force \in BOOLEAN :
       ServerCalls < MaxSubmits /\ RollbackRemediation(id, reason, force)
  \/ \E task \in rollbacks : \E t \in Clock : RollbackReturn(task, t)

SpecRollback == Init /\ [][NextRollback]_vars

\* The snapshot store alone: the RollbackTool of a server whose retention
\* period is short enough for snapshots to expire.
InitSnapshots ==
  /\ config = [require_approval |-> TRUE, max_retries |-> 3]
  /\ require_approval = config.require_approval
  /\ max_retries = config.max_retries
  /\ allowed_actions = << >>
  /\ remediation_history = << >>
  /\ inflight = {}
  /\ now = 0
  /\ requests = << >>
  /\ registered = 0
  /\ rollback_on_failure = TRUE
  /\ enabled = TRUE
  /\ auto_rollback = TRUE
  /\ history_retention_days \in SnapshotRetentionDays
  /\ rollback_history = << >>
  /\ state_snapshots = {}
  /\ rollbacks = {}
  /\ rollback_calls = 0
  /\ captured = {}
  /\ reads = << >>
  /\ rollback_returns = << >>

NextSnapshots ==
  \/ \E r \in Resources : \E t \in SnapClock : CreateSnapshot(r, t)
  \/ \E t \in SnapClock : CleanupOldSnapshots(t)

SpecSnapshots == InitSnapshots /\ [][NextSnapshots]_vars

\* The calls a client makes; each runs on the event loop as soon as it is
\* made, up to its return or to its handler's sleep.
ClientCalls ==
  \/ \E in \in Inputs : \E t \in Clock : Submit(in[1], in[2], t)
  \/ \E id \in Ids : \E by \in Approvers : \E t \in Clock :
       ApproveRemediation(id, by, t)
  \/ \E id \in Ids : \E by \in Approvers : \E reason \in Reasons :
       RejectRemediation(id, by, reason)
  \/ \E name \in ActionNames : RegisterAction(name)

\* The server with handlers that need not return: execute awaits the
\* handler with no asyncio.wait_for around it, so the end of a handler's
\* sleep is the handler's step alone and nothing obliges it to come.  Every
\* call a client makes is served.
SpecHandlersMayHang == Init /\ [][Next]_vars /\ WF_vars(ClientCalls)

\* A RollbackTool under either auto-rollback policy, enabled or not, whose
\* owner reports failed remediations to it.
InitAutoRollback ==
  /\ config = [require_approval |-> TRUE, max_retries |-> 3]
  /\ require_approval = config.require_approval
  /\ max_retries = config.max_retries
  /\ allowed_actions = << >>
  /\ remediation_history = << >>
  /\ inflight = {}
  /\ now = 0
  /\ requests = << >>
  /\ registered = 0
  /\ rollback_on_failure = TRUE
  /\ enabled \in BOOLEAN
  /\ auto_rollback \in BOOLEAN
  /\ history_retention_days = DefaultRetentionDays
  /\ rollback_history = << >>
  /\ state_snapshots = {}
  /\ rollbacks = {}
  /\ rollback_calls = 0
  /\ captured = {}
  /\ reads = << >>
  /\ rollback_returns = << >>

NextAutoRollback ==
  \/ \E id \in Ids : \E reason \in Reasons : AutoRollbackOnFailure(id, reason)
  \/ \E task \in rollbacks : \E t \in Clock : RollbackReturn(task, t)
  \/ \E r \in Resources : \E t \in Clock : CreateSnapshot(r, t)

SpecAutoRollback == InitAutoRollback /\ [][NextAutoRollback]_vars

\* The calls made so far on the RollbackTool: rollbacks and captures.
RollbackToolCalls == rollback_calls + Cardinality(captured)

\* The RollbackTool with all its rollback tools, enabled or not, over a
\* store whose snapshots expire.  A caller's reason is the one-token string
\* <<reason>>, beside the two-token string of AutoReason.
InitRollbackTool ==
  /\ config = [require_approval |-> TRUE, max_retries |-> 3]
  /\ require_approval = config.require_approval
  /\ max_retries = config.max_retries
  /\ allowed_actions = << >>
  /\ remediation_history = << >>
  /\ inflight = {}
  /\ now = 0
  /\ requests = << >>
  /\ registered = 0
  /\ rollback_on_failure = TRUE
  /\ enabled \in BOOLEAN
  /\ auto_rollback = TRUE
  /\ history_retention_days \in SnapshotRetentionDays
  /\ rollback_history = << >>
  /\ state_snapshots = {}
  /\ rollbacks = {}
  /\ rollback_calls = 0
  /\ captured = {}
  /\ reads = << >>
  /\ rollback_returns = << >>

NextRollbackTool ==
  \/ \E id \in Ids : \E reason \in Reasons :
       RollbackToolCalls < MaxSubmits /\ RollbackRemediation(id, <<reason>>, FALSE)
  \/ RollbackToolCalls < MaxSubmits /\ RollbackRemediationNoArguments
  \/ \E id \in Ids : \E reason \in Reasons :
       RollbackToolCalls < MaxSubmits /\ AutoRollbackOnFailure(id, reason)
  \/ \E in \in RollbackInputs :
       RollbackToolCalls < MaxSubmits /\ RollbackOp(in[1], in[2], in[3])
  \/ \E task \in rollbacks : \E t \in SnapClock :
       ~IsOpTask(task) /\ RollbackReturn(task, t)
  \/ \E task \in rollbacks : \E t \in SnapClock : RollbackOpReturn(task, t)
  \/ \E r \in Resources : \E t \in Clock :
       RollbackToolCalls < MaxSubmits /\ CreateSnapshot(r, t)
  \/ \E t \in SnapClock : CleanupOldSnapshots(t)

SpecRollbackTool == InitRollbackTool /\ [][NextRollbackTool]_vars

\* ------------------------------------------------------------ the server
\* The remediation tools the server's list_tools returns: they are left
\* out when config.remediation_config.dry_run_only is set.
ListedRemediationTools == IF config.dry_run_only THEN {} ELSE Tools

\* The server's call_tool(name, arguments) at second t for a name that
\* starts with "remediate_": it awaits remediation_tool.execute.
\* dry_run_only is not read here, nor anywhere in RemediationTool.
CallTool(name, arguments, t) ==
  /\ name[1] = Prefix
  /\ Submit(name, arguments, t)

\* A server whose RemediationConfig carries dry_run_only, set or not.
InitDryRun ==
  /\ config \in [require_approval : BOOLEAN, max_retries : {3},
                 dry_run_only : BOOLEAN]
  /\ require_approval = config.require_approval
  /\ max_retries = config.max_retries
  /\ allowed_actions \in AllowedConfigs
  /\ remediation_history = << >>
  /\ inflight = {}
  /\ now = 0
  /\ requests = << >>
  /\ registered = 0
  /\ rollback_on_failure = TRUE
  /\ enabled = TRUE
  /\ auto_rollback = TRUE
  /\ history_retention_days = DefaultRetentionDays
  /\ rollback_history = << >>
  /\ state_snapshots = {}
  /\ rollbacks = {}
  /\ rollback_calls = 0
  /\ captured = {}
  /\ reads = << >>
  /\ rollback_returns = << >>

NextDryRun ==
  \/ \E in \in Inputs : \E t \in Clock : CallTool(in[1], in[2], t)
  \/ \E t \in inflight : HandlerContinue(t)
  \/ \E t \in inflight : HandlerReturn(t)

SpecDryRun == InitDryRun /\ [][NextDryRun]_vars

\* The write calls made so far on a server whose clients also read:
\* executes and snapshot captures.
WriteCalls == Len(requests) + Cardinality(captured)

\* A server that asks for approval, with the clients that read the
\* remediation history and the snapshot store between the writes.
InitReads ==
  /\ config = [require_approval |-> TRUE, max_retries |-> 3]
  /\ require_approval = config.require_approval
  /\ max_retries = config.max_retries
  /\ allowed_actions = << >>
  /\ remediation_history = << >>
  /\ inflight = {}
  /\ now = 0
  /\ requests = << >>
  /\ registered = 0
  /\ rollback_on_failure = TRUE
  /\ enabled = TRUE
  /\ auto_rollback = TRUE
  /\ history_retention_days = DefaultRetentionDays
  /\ rollback_history = << >>
  /\ state_snapshots = {}
  /\ rollbacks = {}
  /\ rollback_calls = 0
  /\ captured = {}
  /\ reads = << >>
  /\ rollback_returns = << >>

NextReads ==
  \/ \E in \in Inputs : \E t \in Clock :
       WriteCalls < MaxSubmits /\ Submit(in[1], in[2], t)
  \/ \E id \in Ids : \E by \in Approvers : \E reason \in Reasons :
       RejectRemediation(id, by, reason)
  \/ \E r \in Resources : \E t \in Clock :
       WriteCalls < MaxSubmits /\ CreateSnapshot(r, t)
  \/ \E limit \in Limits : GetHistoryCall(limit)
  \/ \E id \in Ids : GetSnapshotCall(id)

SpecReads == InitReads /\ [][NextReads]_vars

\* =================================================================
\* Properties
\* =================================================================
Target(id) == FindRecord(remediation_history, id)

Reqs == 1..Len(requests)

RecordsOf(req) ==
  {i \in 1..Len(remediation_history) : remediation_history[i].req = req}

Decided(rec) == rec.approved_by # None \/ rec.rejected_by # None

\* C1: with config.require_approval = true, a handler is invoked for a
\* submitted request only if approve_remediation was called for that
\* request's own record, also while an approve of another record is in
\* flight.  The code breaks this: an approve sets self.require_approval to
\* False for as long as its handler sleeps, and an execute called in that
\* window runs its handler at once.
C1_NoExecutionWithoutApproval ==
  config.require_approval =>
    \A req \in Reqs :
      requests[req].attempts > 0 =>
        \E i \in RecordsOf(req) : remediation_history[i].approved_by # None

\* The error dict of a call refused as an invalid state transition.
NotAwaiting == Returned("error", "not_awaiting")

IdOf(i) == remediation_history[i].remediation_id

\* C2: of an approve and a reject of the same awaiting_approval record,
\* exactly one succeeds and the other is refused as not awaiting approval:
\* whichever call reaches the awaiting record first is accepted and decides
\* it, every approve or reject of a decided record returns the not-awaiting
\* error and changes nothing, and no record is ever both approved and
\* rejected.
C2_NeverBoth ==
  \A i \in 1..Len(remediation_history) :
    ~(remediation_history[i].approved_by # None
        /\ remediation_history[i].rejected_by # None)

C2_Returns ==
  \A id \in Ids : \A reason \in Reasons :
    LET target == Target(id) IN
    (target # 0 /\ remediation_history[target].require_approval) =>
      IF Decided(remediation_history[target])
        THEN ApproveReturn(id) = NotAwaiting /\ RejectReturn(id, reason) = NotAwaiting
        ELSE /\ ApproveCheck(remediation_history, id) = "ok"
             /\ RejectReturn(id, reason) = Returned("rejected", reason)

C2_Effects ==
  \A id \in Ids : \A by \in Approvers : \A reason \in Reasons : \A t \in Clock :
    LET target == Target(id)
        approved == ApproveEffect(id, by, t).remediation_history
        rejected == RejectEffect(id, by, reason).remediation_history
    IN (target # 0 /\ remediation_history[target].require_approval) =>
         IF Decided(remediation_history[target])
           THEN /\ ApproveEffect(id, by, t) = Current
                /\ RejectEffect(id, by, reason) = Current
           ELSE /\ approved[target].approved_by = by
                /\ approved[target].rejected_by = None
                /\ approved[target].status # "awaiting_approval"
                /\ rejected[target].rejected_by = by
                /\ rejected[target].approved_by = None
                /\ rejected[target].status = "rejected"

C2_ExactlyOneDecision == C2_NeverBoth /\ C2_Returns /\ C2_Effects

\* C2 witness: the approve of a record is in flight, so a reject of that
\* record arriving now is the losing call.
C2_Witness ==
  \E t \in inflight :
    /\ t.kind = "approve"
    /\ remediation_history[t.target].approved_by \in Approvers
    /\ remediation_history[t.target].rejected_by = None
    /\ \A reason \in Reasons : RejectReturn(IdOf(t.target), reason) = NotAwaiting

\* C3: while an approve of a record is in flight, a second approve of the
\* same record returns the not-awaiting error and changes nothing; no
\* record has two approves in flight, and the handler of an approved record
\* has been invoked at most once, exactly once while its approve is in flight.
C3_Inv ==
  /\ \A t, u \in inflight :
       (t.kind = "approve" /\ u.kind = "approve" /\ t.target = u.target) => t = u
  /\ \A i \in 1..Len(remediation_history) :
       remediation_history[i].approved_by # None =>
         requests[remediation_history[i].req].attempts <= 1
  /\ \A t \in inflight :
       t.kind = "approve" =>
         /\ requests[remediation_history[t.target].req].attempts = 1
         /\ Target(IdOf(t.target)) = t.target
         /\ ApproveReturn(IdOf(t.target)) = NotAwaiting

C3_Effects ==
  \A id \in Ids : \A by \in Approvers : \A t \in Clock :
    (\E task \in inflight : task.kind = "approve" /\ task.target = Target(id))
      => ApproveEffect(id, by, t) = Current

C3_ApproveOnce == C3_Inv /\ C3_Effects

\* C3 witness: two records await approval under different ids and the
\* approves of both are in flight, each handler invoked once.
C3_Witness ==
  \E t, u \in inflight :
    /\ t.kind = "approve" /\ u.kind = "approve"
    /\ t.target # u.target
    /\ requests[remediation_history[t.target].req].attempts = 1
    /\ requests[remediation_history[u.target].req].attempts = 1

\* C4: approve_remediation of a record whose status is not
\* awaiting_approval returns the not-awaiting error, invokes no handler and
\* changes nothing: neither the record's status nor the ledger.
C4_Inv ==
  \A id \in Ids :
    (Target(id) # 0 /\ remediation_history[Target(id)].status # "awaiting_approval")
      => ApproveReturn(id) = NotAwaiting

C4_Effects ==
  \A id \in Ids : \A by \in Approvers : \A t \in Clock :
    (Target(id) # 0 /\ remediation_history[Target(id)].status # "awaiting_approval")
      => ApproveEffect(id, by, t) = Current

C4_ApproveRefused == C4_Inv /\ C4_Effects

\* C4 witness: the ledger holds an approved and a failed record under ids
\* an approve can name.
C4_Witness ==
  \E j, k \in 1..Len(remediation_history) :
    /\ remediation_history[j].status = "approved" /\ Target(IdOf(j)) = j
    /\ remediation_history[k].status = "failed" /\ Target(IdOf(k)) = k

\* C5: reject_remediation succeeds exactly on an awaiting_approval record,
\* which becomes rejected with the rejector and the reason stored; from any
\* other status, or for an unknown id, it returns an error and changes
\* nothing; a rejected record is never changed again, and an approve of its
\* id returns the not-awaiting error.
C5_Inv ==
  /\ \A id \in Ids : \A reason \in Reasons :
       RejectReturn(id, reason).status =
         IF Target(id) # 0
              /\ remediation_history[Target(id)].status = "awaiting_approval"
           THEN "rejected" ELSE "error"
  /\ \A i \in 1..Len(remediation_history) :
       remediation_history[i].status = "rejected" =>
         /\ remediation_history[i].rejected_by \in Approvers
         /\ remediation_history[i].rejection_reason \in Reasons
         /\ Target(IdOf(i)) = i
         /\ ApproveReturn(IdOf(i)) = NotAwaiting

C5_Effects ==
  \A id \in Ids : \A by \in Approvers : \A reason \in Reasons :
    RejectEffect(id, by, reason) =
      IF Target(id) # 0
           /\ remediation_history[Target(id)].status = "awaiting_approval"
        THEN [Current EXCEPT
                !.remediation_history =
                  [remediation_history EXCEPT
                     ![Target(id)].status = "rejected",
                     ![Target(id)].rejected_by = by,
                     ![Target(id)].rejection_reason = reason]]
        ELSE Current

C5_Frozen ==
  \A i \in 1..Len(remediation_history) :
    remediation_history[i].status = "rejected" =>
      remediation_history'[i] = remediation_history[i]

C5_RejectOnlyAwaiting == [](C5_Inv /\ C5_Effects) /\ [][C5_Frozen]_vars

\* C5 witness: one record was rejected, with rejector and reason stored,
\* and another record of the ledger is not awaiting approval.
C5_Witness ==
  \E i, j \in 1..Len(remediation_history) :
    /\ remediation_history[i].status = "rejected"
    /\ remediation_history[i].rejected_by \in Approvers
    /\ remediation_history[i].rejection_reason \in Reasons
    /\ remediation_history[j].status = "completed"

\* C6: an execute call whose action is not in a non-empty allow-list
\* returns "rejected" at once, with no handler invoked and nothing stored,
\* and no handler is ever invoked for it later; a call whose action is
\* listed, or any call while the list is empty, is not rejected.  (Every
\* call of the model names its tool remediate_<action>.)
C6_Step ==
  Len(requests') = Len(requests) + 1 =>
    LET req == Len(requests')
        r == requests'[req]
        listed == \E k \in 1..Len(allowed_actions) : allowed_actions[k] = Tail(r.tool)
    IN IF allowed_actions # << >> /\ ~listed
         THEN /\ r.outcome = "rejected"
              /\ r.attempts = 0
              /\ UNCHANGED <<inflight, remediation_history>>
         ELSE r.outcome # "rejected"

C6_Inv ==
  \A req \in Reqs :
    requests[req].outcome = "rejected" =>
      /\ requests[req].attempts = 0
      /\ \A t \in inflight : t.rec.req # req

C6_PolicyRejection == []C6_Inv /\ [][C6_Step]_vars

\* C6 witness: under a non-empty allow-list one call was rejected and the
\* next, of a listed action, had its handler invoked.
C6_Witness ==
  /\ allowed_actions # << >>
  /\ Len(requests) = MaxSubmits
  /\ requests[1].outcome = "rejected"
  /\ requests[1].attempts = 0
  /\ requests[2].tool = RESTART_POD
  /\ requests[2].outcome = "failed"
  /\ requests[2].attempts = 1

\* C7: every execute call rejected by the allow-list leaves a record with
\* status rejected_by_policy in the remediation history.  The code returns
\* the rejection before it builds any record.
C7_PolicyRejectionRecorded ==
  \A req \in Reqs :
    requests[req].outcome = "rejected" =>
      \E i \in RecordsOf(req) :
        remediation_history[i].status \in {"rejected_by_policy", "rejected"}

\* C8: an execute call whose tool name is not a registered remediation
\* action fails with an unknown-action error and appends no record,
\* whatever require_approval and allowed_actions are.  The code stores a
\* record for it: awaiting_approval when approval is required, otherwise
\* one with status "error".
C8_UnknownActionLeavesNoRecord ==
  \A req \in Reqs :
    requests[req].tool \notin Tools =>
      /\ requests[req].outcome = "error"
      /\ RecordsOf(req) = {}

\* C9: an execute call that lacks a required argument fails with an
\* invalid-arguments error, appends no record and invokes no handler.  The
\* code never compares the arguments with the schema.
C9_InvalidArgumentsRefused ==
  \A req \in Reqs :
    (/\ requests[req].tool \in Tools
     /\ ~(RequiredArgs(requests[req].tool) \subseteq requests[req].arguments))
      => /\ requests[req].outcome = "invalid_arguments"
         /\ requests[req].attempts = 0
         /\ RecordsOf(req) = {}

\* C10: the handler invocations made for one request, by execute and by a
\* later approve_remediation together, never exceed max_retries + 1.  (The
\* _restart_service that _update_config awaits is part of that handler's
\* one invocation.)
C10_AttemptsBounded ==
  \A req \in Reqs : requests[req].attempts <= max_retries + 1

\* C10 witness: a request was submitted, approved and executed, and its
\* attempts are at the limit.
C10_Witness ==
  \E req \in Reqs :
    /\ requests[req].outcome = "awaiting_approval"
    /\ requests[req].attempts = max_retries + 1
    /\ \E i \in RecordsOf(req) :
         /\ remediation_history[i].approved_by # None
         /\ remediation_history[i].status = "completed"

\* No coroutine is suspended in a handler called for request req.
Settled(req) == \A task \in inflight : task.rec.req # req

\* C11: without approval, a request whose handler fails is retried until
\* an attempt succeeds or max_retries + 1 attempts have failed, so it is
\* given up as failed only with max_retries + 1 attempts made, and a
\* completed request has a completed record.  The code calls the handler
\* once and stores "failed" after the first exception: max_retries is
\* never read.
C11_RetriedUntilSuccess ==
  ~config.require_approval =>
    \A req \in Reqs :
      /\ requests[req].outcome = "failed" =>
           requests[req].attempts = max_retries + 1
      /\ requests[req].outcome = "completed" =>
           \E i \in RecordsOf(req) : remediation_history[i].status = "completed"

\* C12: when every handler invocation made for a request has failed, no
\* record of the request is completed and one is failed, whether the
\* handler was called by the submit or by an approve.  In the code an
\* approve marks the approved record completed whatever execute returned.
C12_FailedNeverCompleted ==
  \A req \in Reqs :
    (/\ HandlerRaises(requests[req].tool, requests[req].arguments)
     /\ requests[req].attempts > 0
     /\ Settled(req))
      => /\ \A i \in RecordsOf(req) : remediation_history[i].status # "completed"
         /\ \E i \in RecordsOf(req) : remediation_history[i].status = "failed"

RollbackRecords == 1..Len(rollback_history)

\* C13: with rollback_on_failure = true, once the execution of a request
\* has failed and its failed record is stored (execute has returned), the
\* rollback history holds a record with that remediation's id.  The code
\* stores rollback_on_failure and never reads it: execute calls no
\* rollback, and auto_rollback_on_failure has no caller.
C13_FailureRolledBack ==
  rollback_on_failure =>
    \A i \in 1..Len(remediation_history) :
      remediation_history[i].status = "failed" =>
        \E k \in RollbackRecords :
          rollback_history[k].remediation_id = IdOf(i)

\* The transition graph of a record's status ("rejected" is the code's
\* name for rejected_by_caller), with the edge from pending to executing
\* that a submit without approval takes.
StatusEdges ==
  {<<"pending", "awaiting_approval">>, <<"pending", "executing">>,
   <<"awaiting_approval", "approved">>, <<"awaiting_approval", "rejected">>,
   <<"approved", "executing">>, <<"executing", "completed">>,
   <<"executing", "failed">>, <<"failed", "rolled_back">>}

GraphStatuses ==
  {"pending", "awaiting_approval", "approved", "executing", "completed",
   "failed", "rejected", "rolled_back"}

Hop(R) ==
  R \cup {p \in GraphStatuses \X GraphStatuses :
            \E b \in GraphStatuses : <<p[1], b>> \in R /\ <<b, p[2]>> \in R}

\* The pairs <<a, b>> with a path from a to b in the graph: the code never
\* stores "executing", so a record is seen to move along a path.
StatusPaths == Hop(Hop(Hop(StatusEdges)))

\* C14: every status change of a record follows the transition graph: a
\* record enters the history with a status the graph reaches from pending,
\* and a stored record's status only moves forward along the graph.  The
\* code stores a record with status "error", which the graph does not
\* have, for a tool name that execute does not know.
C14_Step ==
  \A i \in 1..Len(remediation_history') :
    IF i <= Len(remediation_history)
      THEN \/ remediation_history'[i].status = remediation_history[i].status
           \/ <<remediation_history[i].status, remediation_history'[i].status>>
                \in StatusPaths
      ELSE <<"pending", remediation_history'[i].status>> \in StatusPaths

C14_StatusGraph == [][C14_Step]_vars

TerminalStatuses == {"completed", "failed", "rejected"}

\* C15: a record of the remediation history that has reached a terminal
\* status (completed, failed, rejected) stays in the history, and no later
\* execute, approve_remediation, reject_remediation or rollback call
\* changes its status, result, error, approver, rejector or rejection
\* reason.
C15_Step ==
  \A i \in 1..Len(remediation_history) :
    remediation_history[i].status \in TerminalStatuses =>
      /\ i <= Len(remediation_history')
      /\ remediation_history'[i] = remediation_history[i]

C15_TerminalFrozen == [][C15_Step]_vars

\* C15 witness: an approved record has become completed and the execution
\* made for it has left a failed record, and a rollback naming the
\* completed record's id has been recorded.
C15_Witness ==
  \E i, j \in 1..Len(remediation_history) : \E k \in RollbackRecords :
    /\ remediation_history[i].status = "completed"
    /\ remediation_history[i].approved_by # None
    /\ remediation_history[j].status = "failed"
    /\ rollback_history[k].remediation_id = IdOf(i)

\* C16: any two distinct records of the remediation history have
\* different remediation_id values.  The id is the clock second of the
\* call, "REM-%Y%m%d%H%M%S": two executes in one second, or the execute an
\* approve makes in the second of the submit, store records with one id.
C16_IdsUnique ==
  \A i, j \in 1..Len(remediation_history) : i # j => IdOf(i) # IdOf(j)

\* C17: a rollback of a remediation id that the remediation history does
\* not hold is refused and appends no rollback record, so every rollback
\* record names an id of the history (which only grows).  The code never
\* looks the remediation up and records every rollback as completed.
C17_RollbackUnknownRefused ==
  \A k \in RollbackRecords :
    Target(rollback_history[k].remediation_id) # 0

\* C18: a rollback with force = false of a remediation whose record is
\* awaiting_approval, or approved and being executed, creates no rollback
\* record.  (A record's status never returns to one of these two, so a
\* record found in one of them was in one of them, or not yet stored, when
\* the rollback was called.)  The code reads force and never uses it.
C18_RollbackNeedsTerminal ==
  \A k \in RollbackRecords :
    LET target == Target(rollback_history[k].remediation_id) IN
    (target # 0 /\ ~rollback_history[k].force) =>
      remediation_history[target].status \notin {"awaiting_approval", "approved"}

Age(snapshot, t) == t - snapshot.timestamp

\* C19: cleanup_old_snapshots removes exactly the snapshots whose
\* retention period has elapsed.  Whenever it is called, a stored snapshot
\* captured less than the retention period ago is still returned by
\* get_snapshot afterwards, one captured more than the retention period
\* ago is not found afterwards, and the sweep adds and alters nothing; and
\* no step at all makes a stored id unknown before its snapshot's
\* retention period has elapsed.
C19_Inv ==
  \A t \in SnapClock :
    LET after == Swept(state_snapshots, t) IN
    /\ after \subseteq state_snapshots
    /\ \A s \in state_snapshots :
         /\ Age(s, t) < RetentionPeriod => GetSnapshotIn(after, s.snapshot_id) = {s}
         /\ Age(s, t) > RetentionPeriod => GetSnapshotIn(after, s.snapshot_id) = {}

C19_Step ==
  \A s \in state_snapshots :
    GetSnapshotIn(state_snapshots', s.snapshot_id) = {} =>
      Age(s, now') > RetentionPeriod

C19_SweepExact == []C19_Inv /\ [][C19_Step]_vars

\* C19 witness: a captured snapshot is no longer found, so a sweep has
\* removed it, while a snapshot captured before that sweep and less than
\* the retention period ago is still there.
C19_Witness ==
  /\ now = MaxSnapClock
  /\ \E c \in captured :
       /\ MaxSnapClock - c.snapshot_id = RetentionPeriod + 1
       /\ GetSnapshot(c.snapshot_id) = {}
  /\ \E s \in state_snapshots :
       s.timestamp < now /\ Age(s, now) < RetentionPeriod

\* C20: after a capture has returned snapshot id s for resource r, and
\* for as long as the retention period of that capture has not elapsed,
\* get_snapshot(s) returns a snapshot of r that expires at its capture time
\* plus the retention period, whatever other captures were made.  The id
\* is the clock second, "snap-%Y%m%d%H%M%S": a capture for another
\* resource in the same second replaces the snapshot under that id.
C20_CaptureRetrievable ==
  \A c \in captured :
    now - c.snapshot_id <= RetentionPeriod =>
      /\ GetSnapshot(c.snapshot_id) # {}
      /\ \A s \in GetSnapshot(c.snapshot_id) :
           /\ s.resource_uri = c.resource_uri
           /\ s.retention_until = s.timestamp + RetentionPeriod

\* C21: the policy fields of the tool (require_approval, max_retries,
\* rollback_on_failure, allowed_actions) are read-only after __init__: no
\* step changes one of them, also not a step in the middle of an approve.
\* The code writes self.require_approval in approve_remediation and
\* appends to self.allowed_actions in register_action.
C21_PolicyReadOnly ==
  [][UNCHANGED <<require_approval, max_retries, rollback_on_failure,
                 allowed_actions>>]_vars

\* C22: once every approve_remediation call has returned, require_approval
\* has its configured value again.  In the code each approve restores the
\* value it found: of two overlapping approves the second finds False, and
\* when it returns after the first it writes False back for good.
C22_ApprovalRestored ==
  (\A task \in inflight : task.kind # "approve") =>
    require_approval = config.require_approval

\* What makes a stored record the record it is: the fields no code writes
\* after the record is built.
RecordIdentity(rec) ==
  [remediation_id |-> rec.remediation_id, tool |-> rec.tool,
   arguments |-> rec.arguments, require_approval |-> rec.require_approval,
   req |-> rec.req]

\* C23: the remediation history is never shrunk: no step removes or
\* replaces a record, so every record ever appended, terminal or awaiting
\* approval, is at its place in every later state.
C23_Step ==
  /\ Len(remediation_history') >= Len(remediation_history)
  /\ \A i \in 1..Len(remediation_history) :
       RecordIdentity(remediation_history'[i]) = RecordIdentity(remediation_history[i])

C23_HistoryKept == [][C23_Step]_vars

\* C23 witness: the first record still awaits approval after a later
\* request was stored, approved and executed.
C23_Witness ==
  /\ Len(remediation_history) = 3
  /\ remediation_history[1].status = "awaiting_approval"
  /\ remediation_history[2].status = "completed"
  /\ remediation_history[2].approved_by # None
  /\ remediation_history[3].status \in {"completed", "failed", "error"}

Min(a, b) == IF a < b THEN a ELSE b

\* What a listing with a limit is to return of a history: its last
\* Min(limit, length) records, the newest first.
NewestFirst(hist, limit) ==
  [k \in 1..Min(limit, Len(hist)) |-> hist[Len(hist) - k + 1]]

\* C24: listing the ledger with a limit returns at most limit records, for
\* every limit >= 0 (0 too), namely the most recently created ones, the
\* newest first.  The code breaks this: the slice [-limit:] is the whole
\* history for limit 0, and it keeps the list order, oldest first.
C24_ListLimit ==
  \A i \in 1..Len(reads) :
    reads[i].op = "get_history" =>
      /\ Len(reads[i].result) <= reads[i].arg
      /\ reads[i].result = NewestFirst(remediation_history, reads[i].arg)

\* A handler is running for the request.
Executing(req) == \E task \in inflight : task.rec.req = req

\* The request's execution is over and left a completed or failed record.
Finished(req) ==
  /\ ~Executing(req)
  /\ \E i \in RecordsOf(req) :
       remediation_history[i].status \in {"completed", "failed"}

\* C25: every request that enters execution eventually reaches a terminal
\* status (completed or failed), also when its handler never returns: each
\* attempt is bounded by a timeout, and a timeout counts as a failed
\* attempt.  The code breaks this: execute awaits the handler without a
\* timeout, so a handler that does not return leaves its request in
\* execution for ever.
C25_ExecutionEnds ==
  \A req \in 1..MaxSubmits : Executing(req) ~> Finished(req)

\* The ids whose lookup finds a record awaiting approval of a request
\* other than the one task serves.
AwaitingBeside(task) ==
  {id \in Ids :
     /\ Target(id) # 0
     /\ remediation_history[Target(id)].status = "awaiting_approval"
     /\ remediation_history[Target(id)].req # task.rec.req}

\* C26: while the handler of one request is in flight, a submit, an
\* approve or a reject for a different record starts and runs: a new
\* execute is served, and an approve or reject of another awaiting record
\* is accepted and decides that record; none waits for the in-flight
\* handler.
C26_NotBlocked ==
  \A task \in inflight :
    /\ Len(requests) < MaxSubmits =>
         \A in \in Inputs : \A t \in Clock : ENABLED Submit(in[1], in[2], t)
    /\ \A id \in AwaitingBeside(task) :
         \A by \in Approvers : \A reason \in Reasons : \A t \in Clock :
           /\ ApproveCheck(remediation_history, id) = "ok"
           /\ ApproveEffect(id, by, t).remediation_history[Target(id)].approved_by = by
           /\ task \in ApproveEffect(id, by, t).inflight
           /\ RejectReturn(id, reason) = Returned("rejected", reason)
           /\ RejectEffect(id, by, reason).remediation_history[Target(id)].status = "rejected"
           /\ RejectEffect(id, by, reason).inflight = inflight

\* C26 witness: the handler of the first request is still in flight; the
\* second request was approved after it started and is already completed.
C26_Witness ==
  /\ Len(requests) = 2
  /\ \E task \in inflight : task.rec.req = 1 /\ task.kind = "approve"
  /\ ~Executing(2)
  /\ \E i \in RecordsOf(2) :
       /\ remediation_history[i].approved_by # None
       /\ remediation_history[i].status = "completed"

\* The rollbacks made or under way for the call numbered c.
RollbacksOf(c) ==
  Cardinality({task \in rollbacks : task.call = c})
    + Cardinality({i \in RollbackRecords : rollback_history[i].call = c})

\* C27: with the auto-rollback policy false, auto_rollback_on_failure is a
\* no-op: it returns a skipped outcome and leaves the rollback history and
\* the snapshot store as they are; with the policy true it performs
\* exactly one rollback, of the remediation id it was given.
C27_Inv ==
  /\ ~auto_rollback =>
       /\ AutoRollbackReturn = "skipped"
       /\ rollback_history = << >>
       /\ rollbacks = {}
  /\ auto_rollback =>
       /\ AutoRollbackReturn = "completed"
       /\ \A c \in 1..rollback_calls : RollbacksOf(c) = 1
       /\ Len(rollback_history) + Cardinality(rollbacks) = rollback_calls
       /\ \A i \in RollbackRecords : rollback_history[i].status = "completed"

C27_Step ==
  rollback_calls' = rollback_calls + 1 =>
    /\ UNCHANGED <<rollback_history, state_snapshots>>
    /\ IF auto_rollback
         THEN \E id \in Ids : \E reason \in Reasons :
                /\ RollbackTask(rollback_calls', id, AutoReason(reason), FALSE)
                     \notin rollbacks
                /\ rollbacks' = rollbacks \cup
                     {RollbackTask(rollback_calls', id, AutoReason(reason), FALSE)}
         ELSE UNCHANGED rollbacks

\* The rollback awaited by a call ends with one record, for the id the
\* call was given.
C27_Return ==
  Len(rollback_history') > Len(rollback_history) =>
    \E task \in rollbacks :
      /\ rollbacks' = rollbacks \ {task}
      /\ Len(rollback_history') = Len(rollback_history) + 1
      /\ rollback_history'[Len(rollback_history')].remediation_id = task.remediation_id
      /\ rollback_history'[Len(rollback_history')].call = task.call

C27_AutoRollback == []C27_Inv /\ [][C27_Step /\ C27_Return]_vars

\* C27 witness: under the false policy, failures were reported while the
\* store held snapshots, and no rollback was made.
C27_Witness ==
  /\ ~auto_rollback
  /\ rollback_calls = 2
  /\ state_snapshots # {}
  /\ rollback_history = << >>
  /\ rollbacks = {}

\* C28: two calls of get_history, or of get_snapshot, with the same
\* argument and no write between them return the same result, and a read
\* changes neither the remediation history nor the snapshot store.
C28_Inv ==
  \A i, j \in 1..Len(reads) :
    (reads[i].op = reads[j].op /\ reads[i].arg = reads[j].arg) =>
      reads[i].result = reads[j].result

C28_Step ==
  Len(reads') > Len(reads) =>
    UNCHANGED <<remediation_history, rollback_history, state_snapshots>>

C28_ReadsIdempotent == []C28_Inv /\ [][C28_Step]_vars

\* C28 witness: with records in the history and a snapshot in the store,
\* get_snapshot was called twice in a row for an id the store holds.
C28_Witness ==
  /\ Len(remediation_history) > 0
  /\ Len(reads) = 2
  /\ reads[1].op = "get_snapshot"
  /\ reads[2].op = "get_snapshot"
  /\ reads[1].arg = reads[2].arg
  /\ reads[1].result # {}

\* C29: every status transition of a remediation record, its creation in
\* pending and its entry into execution included, is in the history at the
\* moment it happens: in no reachable state is a handler running for a
\* request that has no record in the history.  The code breaks this: an
\* execute that needs no approval appends its record only after the
\* handler has returned.
C29_RunningIsRecorded ==
  \A task \in inflight : RecordsOf(task.rec.req) # {}

\* C30: a completed rollback of a remediation leaves a rollback record
\* and cross-links it to the remediation record: the remediation record
\* carries a reference to the rollback record, and the rollback record
\* names the remediation.  The code breaks this: _rollback_remediation
\* never touches the remediation history, whose records have no field for
\* a rollback.
C30_CrossLinked ==
  \A i \in RollbackRecords :
    LET target == Target(rollback_history[i].remediation_id) IN
    target # 0 =>
      /\ rollback_history[i].remediation_id = IdOf(target)
      /\ "rollback_id" \in DOMAIN remediation_history[target]
      /\ remediation_history[target].rollback_id = rollback_history[i].rollback_id

\* The returns noted for the call numbered c.
ReturnsOf(c) == {i \in 1..Len(rollback_returns) : rollback_returns[i].call = c}

\* The rollback records appended for the call numbered c.
RecordsOfCall(c) == {i \in RollbackRecords : rollback_history[i].call = c}

\* C31: a rollback is never retried automatically: each call of
\* rollback_remediation or auto_rollback_on_failure makes at most one
\* attempt and appends at most one rollback record, and a rollback that
\* failed is reported as failed to its caller, with no further attempt.
C31_RollbackNotRetried ==
  \A c \in 1..rollback_calls :
    /\ RollbacksOf(c) <= 1
    /\ Cardinality(RecordsOfCall(c)) <= 1
    /\ Cardinality(ReturnsOf(c)) <= 1
    /\ \A i \in ReturnsOf(c) :
         /\ {task \in rollbacks : task.call = c} = {}
         /\ rollback_returns[i].status \in {"failed", "error", "skipped"} =>
              RecordsOfCall(c) = {}

\* C31 witness: one rollback failed and was reported as failed, another
\* completed with its one record.
C31_Witness ==
  /\ rollback_calls = 2
  /\ rollbacks = {}
  /\ \E i, j \in 1..Len(rollback_returns) :
       /\ rollback_returns[i].status = "failed"
       /\ rollback_returns[j].status = "completed"
       /\ Cardinality(RecordsOfCall(rollback_returns[j].call)) = 1
  /\ Len(rollback_history) = 1

\* C32: every rollback operation that reports completed
\* (rollback_remediation, rollback_config, rollback_deployment,
\* rollback_scale) leaves a record of the attempt and its outcome in the
\* rollback history.  The code breaks this: only _rollback_remediation
\* appends a record; the three other handlers return completed and write
\* nothing.
C32_CompletedIsRecorded ==
  \A i \in 1..Len(rollback_returns) :
    rollback_returns[i].status = "completed" =>
      \E j \in RecordsOfCall(rollback_returns[i].call) :
        rollback_history[j].status = "completed"

\* C36: with the tool disabled (enabled = false), no operation of the
\* RollbackTool, execute with any tool name or auto_rollback_on_failure,
\* performs a rollback or changes the rollback history or the snapshot
\* store, and execute returns an error.  The code breaks this:
\* auto_rollback_on_failure calls _rollback_remediation without testing
\* self.enabled.
C36_DisabledDoesNothing ==
  ~enabled =>
    /\ rollbacks = {}
    /\ rollback_history = << >>
    /\ state_snapshots = {}
    /\ \A i \in 1..Len(rollback_returns) : rollback_returns[i].status = "error"

\* C38: rollback_scale called with a snapshot_id reports completed only
\* when the store holds a snapshot with that id, captured for the
\* resource_uri that is rolled back; an unknown, swept or foreign snapshot
\* id does not lead to a completed restore.  The code breaks this: a
\* lookup that finds nothing falls back to a default state, the resource
\* of a found snapshot is not compared, and completed is returned either
\* way.
C38_ScaleNeedsOwnSnapshot ==
  \A i \in 1..Len(rollback_returns) :
    LET ret == rollback_returns[i] IN
    ("tool" \in DOMAIN ret /\ ret.tool = ROLLBACK_SCALE
       /\ ret.snapshot_id # NoSnapshot /\ ret.status = "completed") =>
      \E snapshot \in ret.snapshot : snapshot.resource_uri = ret.resource_uri

\* C33: each submitted request has exactly one record in the remediation
\* history: approve_remediation updates the awaiting_approval record and
\* appends no further record, so the approve leaves the length of the
\* history as it was.  The code breaks this: the execute that approve
\* awaits appends a record of its own when its handler is done.
C33_OneRecordPerRequest ==
  \A req \in Reqs :
    (\E i \in RecordsOf(req) : remediation_history[i].approved_by # None) =>
      Cardinality(RecordsOf(req)) = 1

\* The statuses of the records of a history, by index.
Statuses(hist) == [k \in 1..Len(hist) |-> hist[k].status]

\* hist is the history h with the status of record i changed and no other.
OnlyStatusChanged(hist, h, i) ==
  /\ Len(hist) >= Len(h)
  /\ hist[i].status # h[i].status
  /\ \A k \in 1..Len(h) : k # i => hist[k].status = h[k].status

\* C34: for every record that is awaiting approval, approve_remediation or
\* reject_remediation called with the id that execute returned for it
\* changes the status of that record and of no other, also when several
\* requests were submitted within one clock second.  The code breaks this:
\* the id is the second of the clock, and the lookup stops at the first
\* record with that id.
C34_DecisionHitsItsRecord ==
  \A i \in 1..Len(remediation_history) :
    remediation_history[i].status = "awaiting_approval" =>
      \A by \in Approvers : \A reason \in Reasons : \A t \in Clock :
        /\ OnlyStatusChanged(ApproveEffect(IdOf(i), by, t).remediation_history,
                             remediation_history, i)
        /\ OnlyStatusChanged(RejectEffect(IdOf(i), by, reason).remediation_history,
                             remediation_history, i)

\* C35: register_action only widens what is permitted: an action that
\* execute would have accepted before the registration is accepted (not
\* rejected by the policy) after it, also when the allow-list was empty
\* before.  The code breaks this: an empty allow-list permits every action,
\* and the first name appended makes it a list that permits that name
\* alone.
C35_Step ==
  allowed_actions' # allowed_actions =>
    \A in \in Inputs : ~PolicyRejects(in[1]) => ~PolicyRejects(in[1])'

C35_RegisterWidens == [][C35_Step]_vars

\* C37: with dry_run_only = true in the remediation configuration, no
\* remediation handler is ever invoked through the server: the remediate_
\* tools are not listed by list_tools and not executed by call_tool.  The
\* code breaks this: list_tools leaves them out, but call_tool routes
\* every remediate_ name to execute, which never reads dry_run_only.
C37_DryRunRunsNothing ==
  config.dry_run_only =>
    /\ ListedRemediationTools = {}
    /\ inflight = {}
    /\ \A req \in Reqs : requests[req].attempts = 0
====
